---- MODULE Spec2Model ----
(***************************************************************************)
(* State-machine model of pkg/channels/whatsapp.go: the WhatsAppChannel    *)
(* adapter with its two transports (native whatsmeow client, WebSocket     *)
(* bridge), the bridge read loop, and the inbound message normalisation.   *)
(***************************************************************************)
EXTENDS Integers, Sequences, FiniteSets, TLC

\* ------------------------------------------------------------------------
\* Bounds of the model
\* ------------------------------------------------------------------------
MaxConns == 2
\* calls of Start/Stop/Send, frames read from the bridge and native events
MaxInputs == 4

Callers == {1, 2}
Handles == 1..MaxConns
Loops == 1..MaxConns
NoConn == 0
Free == 0

\* ------------------------------------------------------------------------
\* JSON values as the bridge wire carries them (encoding/json)
\* ------------------------------------------------------------------------
\* v holds a string or the literal of a number, a the elements of an array
S(v) == [k |-> "str", v |-> v, a |-> <<>>]
N(v) == [k |-> "num", v |-> v, a |-> <<>>]
Arr(a) == [k |-> "arr", v |-> "", a |-> a]
EmptyMap == [x \in {} |-> S("")]
Obj(o) == [raw |-> "object", obj |-> o]

FrameInvalid == [raw |-> "invalid", obj |-> EmptyMap]
FramePing == Obj([type |-> S("ping")])
FrameAck == Obj([type |-> S("ack"), from |-> S("A"), content |-> S("ok")])
FrameTypeNum == Obj([type |-> N("1"), from |-> S("A"), content |-> S("hi")])
FrameHi == Obj([type |-> S("message"), from |-> S("A"), content |-> S("hi")])
FrameFull ==
    Obj([type |-> S("message"), from |-> S("B"), chat |-> S("G"),
         content |-> S("yo"), media |-> Arr(<<S("/m/1"), N("7")>>),
         id |-> S("m1"), from_name |-> S("Bob")])
FrameEmpty == Obj([type |-> S("message"), from |-> S("A")])
FrameNoFrom == Obj([type |-> S("message"), content |-> S("hi")])

BridgeFrames ==
    {FrameInvalid, FramePing, FrameAck, FrameTypeNum, FrameHi, FrameFull,
     FrameEmpty, FrameNoFrom}

\* json.Unmarshal(message, &msg) with msg a map[string]interface{}
Unmarshal(message) ==
    CASE message.raw = "object" -> [err |-> FALSE, msg |-> message.obj]
      [] message.raw = "null" -> [err |-> FALSE, msg |-> EmptyMap]
      [] OTHER -> [err |-> TRUE, msg |-> EmptyMap]

\* v, ok := msg[key].(string)
IsStr(msg, key) == key \in DOMAIN msg /\ msg[key].k = "str"
IsArr(msg, key) == key \in DOMAIN msg /\ msg[key].k = "arr"

\* json.Marshal(payload) of sendBridge's payload map
Marshal(chatID, content) ==
    [err |-> FALSE,
     data |-> Obj([type |-> S("message"), to |-> S(chatID),
                   content |-> S(content)])]

OutboundMessages == {[ChatID |-> "A", Content |-> "hi"],
                     [ChatID |-> "1:2:3@s", Content |-> ""]}

\* types.ParseJID rejects an address with too many device separators
ParseJIDErr(chatID) == chatID = "1:2:3@s"

\* ------------------------------------------------------------------------
\* handleBridgeMessage and the frame dispatch of listenBridge
\* ------------------------------------------------------------------------
NoCall == [call |-> FALSE]

StrOnly(seq) ==
    LET strs == SelectSeq(seq, LAMBDA e : e.k = "str")
    IN [i \in 1..Len(strs) |-> strs[i].v]

bridgeMediaPaths(msg) ==
    IF IsArr(msg, "media") THEN StrOnly(msg["media"].a) ELSE <<>>

bridgeMetadata(msg) ==
    LET keys == (IF IsStr(msg, "id") THEN {"message_id"} ELSE {})
                \cup (IF IsStr(msg, "from_name") THEN {"user_name"} ELSE {})
    IN [key \in keys |->
          IF key = "message_id" THEN msg["id"].v ELSE msg["from_name"].v]

handleBridgeMessage(msg) ==
    IF ~IsStr(msg, "from")
      THEN NoCall
      ELSE [call |-> TRUE,
            senderID |-> msg["from"].v,
            chatID |-> IF IsStr(msg, "chat") THEN msg["chat"].v
                                              ELSE msg["from"].v,
            content |-> IF IsStr(msg, "content") THEN msg["content"].v ELSE "",
            mediaPaths |-> bridgeMediaPaths(msg),
            metadata |-> bridgeMetadata(msg)]

\* faulty variant: the type test is dropped, any typed frame is handled
listenBridgeFrameAnyType(message) ==
    LET u == Unmarshal(message)
    IN IF u.err THEN NoCall
       ELSE IF ~IsStr(u.msg, "type") THEN NoCall
       ELSE handleBridgeMessage(u.msg)

\* the body of listenBridge after a successful ReadMessage
listenBridgeFrame(message) ==
    LET u == Unmarshal(message)
    IN IF u.err THEN NoCall
       ELSE IF ~IsStr(u.msg, "type") THEN NoCall
       ELSE IF u.msg["type"].v = "message" THEN handleBridgeMessage(u.msg)
       ELSE NoCall

\* BaseChannel.HandleMessage: the arguments of the push to the message bus
HandleMessage(via, call) ==
    [via |-> via, senderID |-> call.senderID, chatID |-> call.chatID,
     content |-> call.content, mediaPaths |-> call.mediaPaths,
     metadata |-> call.metadata]

NoBusCall ==
    [via |-> "none", senderID |-> "", chatID |-> "", content |-> "",
     mediaPaths |-> <<>>, metadata |-> EmptyMap]

\* ------------------------------------------------------------------------
\* Native mode: payloads of events.Message and the normalisation helpers
\* ------------------------------------------------------------------------
JID(user, server) == [User |-> user, Server |-> server]
\* types.JID.String()
JIDString(j) == j.User \o "@" \o j.Server

NoAtt == [present |-> FALSE, caption |-> "", fileName |-> <<>>]
Att(caption) == [present |-> TRUE, caption |-> caption, fileName |-> <<>>]
Doc(fileName, caption) ==
    [present |-> TRUE, caption |-> caption, fileName |-> fileName]

BaseMsg ==
    [IsFromMe |-> FALSE, Sender |-> JID("111", "s.whatsapp.net"),
     Chat |-> JID("111", "s.whatsapp.net"), ID |-> "E1", PushName |-> "",
     IsGroup |-> FALSE, Conversation |-> "", ExtendedText |-> "",
     Image |-> NoAtt, Video |-> NoAtt, Document |-> NoAtt, Audio |-> NoAtt,
     Sticker |-> FALSE]

PText == [BaseMsg EXCEPT !.Conversation = "hi"]
PExt == [BaseMsg EXCEPT !.ExtendedText = "quoted", !.PushName = "Ann"]
PSelf == [BaseMsg EXCEPT !.IsFromMe = TRUE, !.Conversation = "hi",
                         !.Image = Att("cap")]
PBroadcast == [BaseMsg EXCEPT !.Chat = JID("status", "broadcast"),
                              !.Conversation = "hi", !.Audio = Att("")]
PImageText == [BaseMsg EXCEPT !.Conversation = "hi", !.Image = Att("cap")]
PImageOnly == [BaseMsg EXCEPT !.Image = Att("cap")]
PVideo == [BaseMsg EXCEPT !.Video = Att("")]
PDocNoExt == [BaseMsg EXCEPT !.ExtendedText = "see",
                             !.Document = Doc(<<"r", "e", "p">>, "cap")]
PDocPdf == [BaseMsg EXCEPT !.Document = Doc(<<"a", ".", "p">>, "")]
PAudio == [BaseMsg EXCEPT !.Audio = Att("")]
PSticker == [BaseMsg EXCEPT !.Sticker = TRUE]
PReaction == BaseMsg
PGroupMulti == [BaseMsg EXCEPT !.Chat = JID("999", "g.us"), !.IsGroup = TRUE,
                               !.PushName = "Bob", !.Conversation = "hi",
                               !.Video = Att("clip"), !.Audio = Att("")]

NativePayloads ==
    {PText, PExt, PSelf, PBroadcast, PImageText, PImageOnly, PVideo,
     PDocNoExt, PDocPdf, PAudio, PSticker, PReaction, PGroupMulti}

EventKinds == {"Message", "Connected", "Disconnected", "LoggedOut",
               "HistorySync"}

AttKinds == {"image", "video", "doc", "audio"}
DownloadOutcomes == {"ok", "fetch_err", "create_err", "write_err"}
VoiceInputs == {[available |-> FALSE, err |-> FALSE, text |-> ""],
                [available |-> TRUE, err |-> TRUE, text |-> ""],
                [available |-> TRUE, err |-> FALSE, text |-> "hello"]}

\* faulty variant: the separator is written even before the first part
appendWhatsAppContentAlwaysNewline(content, suffix) ==
    content \o "\n" \o suffix

appendWhatsAppContent(content, suffix) ==
    IF content = "" THEN suffix ELSE content \o "\n" \o suffix

\* filepath.Ext on a name given as a sequence of characters
RECURSIVE ExtFrom(_, _)
ExtFrom(name, i) ==
    IF i = 0 \/ name[i] = "/" THEN <<>>
    ELSE IF name[i] = "." THEN SubSeq(name, i, Len(name))
    ELSE ExtFrom(name, i - 1)
Ext(name) == ExtFrom(name, Len(name))

\* the extension handleMessageEvent passes for a document
docExt(fileName) ==
    IF fileName # <<>>
      THEN IF Ext(fileName) = <<>> THEN <<".", "b", "i", "n">> ELSE Ext(fileName)
      ELSE <<".", "b", "i", "n">>

\* os.CreateTemp: a name no existing file has
FreshName(files) ==
    CHOOSE n \in 1..(Cardinality(files) + 1) :
        (\A g \in files : g.name # n)
        /\ (\A m \in 1..(n - 1) : \E g \in files : g.name = m)

\* downloadMedia: path is returned when ok, files is the filesystem after
downloadMedia(files, hasClient, outcome, ext) ==
    LET tmpFile == [name |-> FreshName(files), ext |-> ext]
    IN IF ~hasClient THEN [ok |-> FALSE, path |-> tmpFile, files |-> files]
       ELSE IF outcome = "fetch_err"
         THEN [ok |-> FALSE, path |-> tmpFile, files |-> files]
       ELSE IF outcome = "create_err"
         THEN [ok |-> FALSE, path |-> tmpFile, files |-> files]
       ELSE IF outcome = "write_err"
         THEN [ok |-> FALSE, path |-> tmpFile,
               files |-> (files \cup {tmpFile}) \ {tmpFile}]
       ELSE [ok |-> TRUE, path |-> tmpFile, files |-> files \cup {tmpFile}]

\* faulty variant: a failed transcription yields no annotation
handleVoiceMessageEmptyOnError(hasTranscriber, voice) ==
    IF ~hasTranscriber \/ ~voice.available THEN "[voice]"
    ELSE IF voice.err THEN ""
    ELSE "[voice transcription: " \o voice.text \o "]"

\* handleVoiceMessage: voice is what the transcriber reports and returns
handleVoiceMessage(hasTranscriber, voice) ==
    IF ~hasTranscriber \/ ~voice.available THEN "[voice]"
    ELSE IF voice.err THEN "[voice (transcription failed)]"
    ELSE "[voice transcription: " \o voice.text \o "]"

\* one attachment block of handleMessageEvent (image, video, document)
attachStep(st, att, hasClient, outcome, ext) ==
    IF ~att.present THEN st
    ELSE LET d == downloadMedia(st.files, hasClient, outcome, ext)
             st1 == IF d.ok
                      THEN [st EXCEPT !.files = d.files,
                                      !.downloads = @ + 1,
                                      !.localFiles = Append(@, d.path),
                                      !.mediaPaths = Append(@, d.path)]
                      ELSE [st EXCEPT !.files = d.files,
                                      !.downloads = @ + 1]
         IN IF att.caption # ""
              THEN [st1 EXCEPT
                      !.content = appendWhatsAppContent(@, att.caption)]
              ELSE st1

\* the audio block of handleMessageEvent
audioStep(st, att, hasClient, outcome, hasTranscriber, voice) ==
    IF ~att.present THEN st
    ELSE LET d == downloadMedia(st.files, hasClient, outcome,
                                <<".", "o", "g", "g">>)
         IN IF d.ok
              THEN [st EXCEPT
                      !.files = d.files,
                      !.downloads = @ + 1,
                      !.localFiles = Append(@, d.path),
                      !.mediaPaths = Append(@, d.path),
                      !.content = appendWhatsAppContent(@,
                                    handleVoiceMessage(hasTranscriber, voice))]
              ELSE [st EXCEPT !.files = d.files, !.downloads = @ + 1]

stickerStep(st, sticker) ==
    IF sticker
      THEN [st EXCEPT !.content = appendWhatsAppContent(@, "[sticker]")]
      ELSE st

extractText(evt) ==
    IF evt.Conversation # "" THEN evt.Conversation
    ELSE IF evt.ExtendedText # "" THEN evt.ExtendedText
    ELSE ""

nativeMetadata(evt) ==
    LET keys == {"message_id", "sender_jid"}
                \cup (IF evt.PushName # "" THEN {"user_name"} ELSE {})
                \cup (IF evt.IsGroup THEN {"is_group"} ELSE {})
    IN [key \in keys |->
          CASE key = "message_id" -> evt.ID
            [] key = "sender_jid" -> JIDString(evt.Sender)
            [] key = "user_name" -> evt.PushName
            [] OTHER -> "true"]

\* faulty variant: self-sent messages are not skipped
skipMessageEventBroadcastOnly(evt) == evt.Chat.Server = "broadcast"

\* handleMessageEvent: the early returns for self-sent messages and status
\* broadcasts
skipMessageEvent(evt) == evt.IsFromMe \/ evt.Chat.Server = "broadcast"

\* handleMessageEvent up to the point where it returns or calls
\* HandleMessage: skip = an early return before any download,
\* call = HandleMessage is invoked, files = the filesystem at that point,
\* downloads = the number of downloadMedia calls made.
handleMessageEvent(evt, files, hasClient, hasTranscriber, dl, voice) ==
    LET st0 == [content |-> extractText(evt), mediaPaths |-> <<>>,
                localFiles |-> <<>>, files |-> files, downloads |-> 0]
        st1 == attachStep(st0, evt.Image, hasClient, dl["image"],
                          <<".", "j", "p", "g">>)
        st2 == attachStep(st1, evt.Video, hasClient, dl["video"],
                          <<".", "m", "p", "4">>)
        st3 == attachStep(st2, evt.Document, hasClient, dl["doc"],
                          docExt(evt.Document.fileName))
        st4 == audioStep(st3, evt.Audio, hasClient, dl["audio"],
                         hasTranscriber, voice)
        st5 == stickerStep(st4, evt.Sticker)
    IN IF skipMessageEvent(evt)
         THEN [skip |-> TRUE, call |-> FALSE, senderID |-> "", chatID |-> "",
               content |-> "", mediaPaths |-> <<>>, metadata |-> EmptyMap,
               localFiles |-> <<>>, files |-> files, downloads |-> 0]
         ELSE [skip |-> FALSE,
               call |-> ~(st5.content = "" /\ Len(st5.mediaPaths) = 0),
               senderID |-> JIDString(evt.Sender),
               chatID |-> JIDString(evt.Chat),
               content |-> st5.content, mediaPaths |-> st5.mediaPaths,
               metadata |-> nativeMetadata(evt),
               localFiles |-> st5.localFiles, files |-> st5.files,
               downloads |-> st5.downloads]

\* faulty variant: the cleanup stops one file short
removeLocalFilesKeepsLast(files, localFiles) ==
    files \ {localFiles[i] : i \in 1..(Len(localFiles) - 1)}

\* the deferred cleanup of handleMessageEvent
removeLocalFiles(files, localFiles) ==
    files \ {localFiles[i] : i \in 1..Len(localFiles)}

\* ------------------------------------------------------------------------
\* State
\* ------------------------------------------------------------------------
VARIABLES
    bridgeURL,    \* config.BridgeURL
    transcriber,  \* c.transcriber # nil
    running,      \* BaseChannel running flag
    client,       \* c.client # nil
    container,    \* c.container # nil
    conn,         \* c.conn: NoConn or a handle
    connected,    \* c.connected
    mu,           \* c.mu: Free or the caller holding it
    cancelled,    \* ctx.Done() of the context given to Start
    nDial,        \* handles dialled so far
    closed,       \* per handle: number of Close calls
    failed,       \* per handle: a ReadMessage on it has returned an error
    delivered,    \* frames ReadMessage has returned so far
    clientConn,   \* client.IsConnected()
    hasSession,   \* client.Store.ID # nil
    inputs,       \* calls made, frames read and native events dispatched
    cpc,          \* per caller: position
    cconn,        \* per caller: startBridge's local conn
    cmsg,         \* per caller: Send's msg
    lpc,          \* per read loop: position
    lconn,        \* per read loop: local conn
    lmsg,         \* per read loop: frame returned by ReadMessage
    busLog,       \* HandleMessage calls: delivery number and connection of
                  \* the payload each was made for
    out,          \* what the step just taken returned to its caller, wrote
                  \* to the socket, sent through the client, pushed to the bus
                  \* (retry: the frame was read from a handle that had failed;
                  \* evt: the events.Message dispatched, with the outcomes its
                  \* downloads and transcription met; downloads: the number of
                  \* downloadMedia calls it made)
    npc,          \* native event callback: position
    nlocal,       \* native event callback: localFiles
    busOK,        \* whether the delivery in progress succeeds
    fs,           \* files in the transient media directory
    nkind         \* kind of the native event dispatched last

cfgVars == <<bridgeURL, transcriber>>
adapterVars == <<running, client, container, conn, connected, mu>>
wireVars == <<nDial, closed, failed, delivered>>
clientVars == <<clientConn, hasSession>>
callerVars == <<cpc, cconn, cmsg>>
loopVars == <<lpc, lconn, lmsg>>
nativeVars == <<npc, nlocal, busOK, fs, nkind>>
vars == <<cfgVars, adapterVars, cancelled, inputs, wireVars, clientVars,
          callerVars, loopVars, busLog, out, nativeVars>>

NoFrame == [seq |-> 0, h |-> NoConn, retry |-> FALSE, frame |-> FramePing]
NoMsg == [ChatID |-> "", Content |-> ""]
NoRet == [op |-> "none", err |-> "none"]
NoWrite == [h |-> NoConn, ok |-> FALSE, data |-> FramePing]
NoSent == [to |-> "", content |-> "", ok |-> FALSE]
NoEvt == [on |-> FALSE, p |-> BaseMsg,
          dl |-> [kind \in AttKinds |-> "ok"],
          voice |-> [available |-> FALSE, err |-> FALSE, text |-> ""]]
NoOut == [ret |-> NoRet, write |-> NoWrite, sent |-> NoSent,
          call |-> NoBusCall, retry |-> FALSE, evt |-> NoEvt, downloads |-> 0]
Ret(op, err) == [op |-> op, err |-> err]

\* NewWhatsAppChannel
Init ==
    /\ bridgeURL \in {"", "ws://bridge"}
    \* the transcriber and the device store are used in Native mode only
    /\ transcriber \in (IF bridgeURL = "" THEN BOOLEAN ELSE {FALSE})
    /\ running = FALSE
    /\ client = FALSE
    /\ container = FALSE
    /\ conn = NoConn
    /\ connected = FALSE
    /\ mu = Free
    /\ cancelled = FALSE
    /\ nDial = 0
    /\ closed = [h \in Handles |-> 0]
    /\ failed = [h \in Handles |-> FALSE]
    /\ delivered = 0
    /\ clientConn = FALSE
    /\ hasSession \in (IF bridgeURL = "" THEN BOOLEAN ELSE {FALSE})
    /\ inputs = 0
    /\ cpc = [c \in Callers |-> "idle"]
    /\ cconn = [c \in Callers |-> NoConn]
    /\ cmsg = [c \in Callers |-> NoMsg]
    /\ lpc = [l \in Loops |-> "none"]
    /\ lconn = [l \in Loops |-> NoConn]
    /\ lmsg = [l \in Loops |-> NoFrame]
    /\ busLog = <<>>
    /\ out = NoOut
    /\ npc = "idle"
    /\ nlocal = <<>>
    /\ busOK = FALSE
    /\ fs = {}
    /\ nkind = "none"

\* the mode tests of Start, Stop and Send
StartUsesBridge == bridgeURL # ""
StopUsesBridge == bridgeURL # ""
SendUsesBridgeInverted == bridgeURL = ""
SendUsesBridge == bridgeURL # ""

\* callers are interchangeable threads: a call is made on the first idle one
CanCall(c) ==
    /\ cpc[c] = "idle"
    /\ inputs < MaxInputs
    /\ \A d \in Callers : cpc[d] = "idle" => ~(d < c)

Enter == inputs' = inputs + 1

Return(c, op, err) ==
    /\ cpc' = [cpc EXCEPT ![c] = "idle"]
    /\ out' = [NoOut EXCEPT !.ret = Ret(op, err)]

NoOutput == out' = NoOut

\* ------------------------------------------------------------------------
\* Bridge mode
\* ------------------------------------------------------------------------
\* startBridge: dialer.Dial
startBridgeDial(c) ==
    /\ CanCall(c)
    /\ Enter
    /\ \/ /\ Return(c, "startBridge", "ErrConnect")
          /\ UNCHANGED <<nDial, cconn>>
       \/ /\ nDial < MaxConns
          /\ nDial' = nDial + 1
          /\ cconn' = [cconn EXCEPT ![c] = nDial + 1]
          /\ cpc' = [cpc EXCEPT ![c] = "start_set"]
          /\ NoOutput
    /\ UNCHANGED <<cfgVars, adapterVars, cancelled, closed, failed, delivered,
                   clientVars, cmsg, loopVars, busLog, nativeVars>>

\* startBridge: c.mu.Lock(); c.conn = conn; c.connected = true; c.mu.Unlock()
startBridgeSet(c) ==
    /\ cpc[c] = "start_set"
    /\ mu = Free
    /\ conn' = cconn[c]
    /\ connected' = TRUE
    /\ cpc' = [cpc EXCEPT ![c] = "start_run"]
    /\ NoOutput
    /\ UNCHANGED <<cfgVars, running, client, container, mu, cancelled,
                   wireVars, clientVars, inputs, cconn, cmsg,
                   loopVars, busLog, nativeVars>>

FreeLoop ==
    CHOOSE l \in Loops :
        lpc[l] = "none" /\ \A m \in 1..(l - 1) : lpc[m] # "none"

\* faulty variant: no read loop is launched
startBridgeRunNoLoop(c) ==
    /\ cpc[c] = "start_run"
    /\ running' = TRUE
    /\ Return(c, "startBridge", "nil")
    /\ cconn' = [cconn EXCEPT ![c] = NoConn]
    /\ UNCHANGED <<cfgVars, client, container, conn, connected, mu, cancelled,
                   wireVars, clientVars, inputs, cmsg, loopVars,
                   busLog, nativeVars>>

\* startBridge: c.setRunning(true); go c.listenBridge(ctx); return nil
startBridgeRun(c) ==
    /\ cpc[c] = "start_run"
    /\ running' = TRUE
    /\ lpc' = [lpc EXCEPT ![FreeLoop] = "select"]
    /\ Return(c, "startBridge", "nil")
    /\ cconn' = [cconn EXCEPT ![c] = NoConn]
    /\ UNCHANGED <<cfgVars, client, container, conn, connected, mu, cancelled,
                   wireVars, clientVars, inputs, cmsg, lconn, lmsg,
                   busLog, nativeVars>>

\* stopBridge: c.mu.Lock() and the c.conn != nil test
stopBridgeLock(c) ==
    /\ CanCall(c)
    /\ Enter
    /\ mu = Free
    /\ mu' = c
    /\ cpc' = [cpc EXCEPT ![c] = IF conn # NoConn THEN "stop_close"
                                                  ELSE "stop_fin"]
    /\ NoOutput
    /\ UNCHANGED <<cfgVars, running, client, container, conn, connected,
                   cancelled, wireVars, clientVars, cconn, cmsg,
                   loopVars, busLog, nativeVars>>

\* faulty variant: the handle is closed but not cleared
stopBridgeCloseKeepsConn(c) ==
    /\ cpc[c] = "stop_close"
    /\ closed' = [closed EXCEPT ![conn] = @ + 1]
    /\ cpc' = [cpc EXCEPT ![c] = "stop_fin"]
    /\ NoOutput
    /\ UNCHANGED <<cfgVars, adapterVars, cancelled, nDial, failed, delivered,
                   clientVars, inputs, cconn, cmsg, loopVars, busLog,
                   nativeVars>>

\* stopBridge: c.conn.Close(); c.conn = nil
stopBridgeClose(c) ==
    /\ cpc[c] = "stop_close"
    /\ closed' = [closed EXCEPT ![conn] = @ + 1]
    /\ conn' = NoConn
    /\ cpc' = [cpc EXCEPT ![c] = "stop_fin"]
    /\ NoOutput
    /\ UNCHANGED <<cfgVars, running, client, container, connected, mu,
                   cancelled, nDial, failed, delivered, clientVars, inputs,
                   cconn, cmsg, loopVars, busLog, nativeVars>>

\* stopBridge: c.connected = false; c.setRunning(false); unlock; return nil
stopBridgeFinish(c) ==
    /\ cpc[c] = "stop_fin"
    /\ connected' = FALSE
    /\ running' = FALSE
    /\ mu' = Free
    /\ Return(c, "stopBridge", "nil")
    /\ UNCHANGED <<cfgVars, client, container, conn, cancelled, wireVars,
                   clientVars, inputs, cconn, cmsg, loopVars, busLog,
                   nativeVars>>

\* faulty variant: sendBridge does not take c.mu
sendBridgeLockNoMutex(c, msg) ==
    /\ CanCall(c)
    /\ Enter
    /\ IF conn = NoConn
         THEN /\ Return(c, "sendBridge", "ErrNotEstablished")
              /\ UNCHANGED cmsg
         ELSE IF Marshal(msg.ChatID, msg.Content).err
           THEN /\ Return(c, "sendBridge", "ErrMarshal")
                /\ UNCHANGED cmsg
           ELSE /\ cmsg' = [cmsg EXCEPT ![c] = msg]
                /\ cpc' = [cpc EXCEPT ![c] = "send_write"]
                /\ NoOutput
    /\ UNCHANGED <<cfgVars, running, client, container, conn, connected, mu,
                   cancelled, wireVars, clientVars, cconn, loopVars, busLog,
                   nativeVars>>

\* sendBridge: c.mu.Lock(); the c.conn == nil test; json.Marshal
sendBridgeLock(c, msg) ==
    /\ CanCall(c)
    /\ Enter
    /\ mu = Free
    /\ IF conn = NoConn
         THEN /\ Return(c, "sendBridge", "ErrNotEstablished")
              /\ UNCHANGED <<mu, cmsg>>
         ELSE IF Marshal(msg.ChatID, msg.Content).err
           THEN /\ Return(c, "sendBridge", "ErrMarshal")
                /\ UNCHANGED <<mu, cmsg>>
           ELSE /\ mu' = c
                /\ cmsg' = [cmsg EXCEPT ![c] = msg]
                /\ cpc' = [cpc EXCEPT ![c] = "send_write"]
                /\ NoOutput
    /\ UNCHANGED <<cfgVars, running, client, container, conn, connected,
                   cancelled, wireVars, clientVars, cconn, loopVars, busLog,
                   nativeVars>>

\* faulty variant: a failed write is not reported
sendBridgeWriteSwallowsError(c) ==
    /\ cpc[c] = "send_write"
    /\ \E ok \in BOOLEAN :
          out' = [NoOut EXCEPT
                    !.write = [h |-> conn, ok |-> ok,
                               data |-> Marshal(cmsg[c].ChatID,
                                                cmsg[c].Content).data],
                    !.ret = Ret("sendBridge", "nil")]
    /\ cpc' = [cpc EXCEPT ![c] = "idle"]
    /\ mu' = Free
    /\ cmsg' = [cmsg EXCEPT ![c] = NoMsg]
    /\ UNCHANGED <<cfgVars, running, client, container, conn, connected,
                   cancelled, wireVars, clientVars,
                   inputs, cconn, loopVars, busLog, nativeVars>>

\* sendBridge: c.conn.WriteMessage(websocket.TextMessage, data); unlock
sendBridgeWrite(c) ==
    /\ cpc[c] = "send_write"
    /\ \E ok \in BOOLEAN :
          out' = [NoOut EXCEPT
                    !.write = [h |-> conn, ok |-> ok,
                               data |-> Marshal(cmsg[c].ChatID,
                                                cmsg[c].Content).data],
                    !.ret = Ret("sendBridge",
                                IF ok THEN "nil" ELSE "ErrSend")]
    /\ cpc' = [cpc EXCEPT ![c] = "idle"]
    /\ mu' = Free
    /\ cmsg' = [cmsg EXCEPT ![c] = NoMsg]
    /\ UNCHANGED <<cfgVars, running, client, container, conn, connected,
                   cancelled, wireVars, clientVars,
                   inputs, cconn, loopVars, busLog, nativeVars>>

\* faulty variant: the loop never looks at ctx.Done()
listenBridgeSelectNoDone(l) ==
    /\ lpc[l] = "select"
    /\ mu = Free
    /\ lconn' = [lconn EXCEPT ![l] = conn]
    /\ lpc' = [lpc EXCEPT ![l] = IF conn = NoConn THEN "sleep1" ELSE "read"]
    /\ NoOutput
    /\ UNCHANGED <<cfgVars, adapterVars, cancelled, wireVars, clientVars,
                   inputs, callerVars, lmsg, busLog, nativeVars>>

\* listenBridge: the select on ctx.Done() and the locked read of c.conn
listenBridgeSelect(l) ==
    /\ lpc[l] = "select"
    /\ IF cancelled
         THEN /\ lpc' = [lpc EXCEPT ![l] = "done"]
              /\ UNCHANGED lconn
         ELSE /\ mu = Free
              /\ lconn' = [lconn EXCEPT ![l] = conn]
              /\ lpc' = [lpc EXCEPT ![l] = IF conn = NoConn THEN "sleep1"
                                                           ELSE "read"]
    /\ NoOutput
    /\ UNCHANGED <<cfgVars, adapterVars, cancelled, wireVars, clientVars,
                   inputs, callerVars, lmsg, busLog, nativeVars>>

\* listenBridge: time.Sleep after a nil handle or a read error; continue
listenBridgeSleep(l) ==
    /\ lpc[l] \in {"sleep1", "sleep2"}
    /\ lpc' = [lpc EXCEPT ![l] = "select"]
    /\ lconn' = [lconn EXCEPT ![l] = NoConn]
    /\ NoOutput
    /\ UNCHANGED <<cfgVars, adapterVars, cancelled, wireVars, clientVars,
                   inputs, callerVars, lmsg, busLog, nativeVars>>

\* faulty variant: the loop returns on a read error
listenBridgeReadErrReturns(l) ==
    /\ lpc[l] = "read"
    /\ lpc' = [lpc EXCEPT ![l] = "done"]
    /\ failed' = [failed EXCEPT ![lconn[l]] = TRUE]
    /\ NoOutput
    /\ UNCHANGED <<cfgVars, adapterVars, cancelled, nDial, closed, delivered,
                   clientVars, inputs, callerVars, lconn, lmsg, busLog,
                   nativeVars>>

\* listenBridge: conn.ReadMessage() returns an error
listenBridgeReadErr(l) ==
    /\ lpc[l] = "read"
    /\ lpc' = [lpc EXCEPT ![l] = "sleep2"]
    /\ failed' = [failed EXCEPT ![lconn[l]] = TRUE]
    /\ NoOutput
    /\ UNCHANGED <<cfgVars, adapterVars, cancelled, nDial, closed, delivered,
                   clientVars, inputs, callerVars, lconn, lmsg, busLog,
                   nativeVars>>

\* listenBridge: conn.ReadMessage() returns the next frame the peer sent
listenBridgeRead(l, frame) ==
    /\ lpc[l] = "read"
    /\ inputs < MaxInputs
    /\ inputs' = inputs + 1
    /\ delivered' = delivered + 1
    /\ lmsg' = [lmsg EXCEPT ![l] = [seq |-> delivered + 1, h |-> lconn[l],
                                    retry |-> failed[lconn[l]],
                                    frame |-> frame]]
    /\ lpc' = [lpc EXCEPT ![l] = "handle"]
    /\ NoOutput
    /\ UNCHANGED <<cfgVars, adapterVars, cancelled, nDial, closed, failed,
                   clientVars, callerVars, lconn, busLog, nativeVars>>

\* listenBridge: unmarshal, type test, handleBridgeMessage
listenBridgeHandle(l) ==
    /\ lpc[l] = "handle"
    /\ LET r == listenBridgeFrame(lmsg[l].frame)
       IN IF r.call
            THEN /\ busLog' = Append(busLog, [seq |-> lmsg[l].seq,
                                               h |-> lmsg[l].h])
                 /\ out' = [NoOut EXCEPT !.call = HandleMessage("bridge", r),
                                          !.retry = lmsg[l].retry]
            ELSE /\ UNCHANGED busLog
                 /\ NoOutput
    /\ lmsg' = [lmsg EXCEPT ![l] = NoFrame]
    /\ lconn' = [lconn EXCEPT ![l] = NoConn]
    /\ lpc' = [lpc EXCEPT ![l] = "select"]
    /\ UNCHANGED <<cfgVars, adapterVars, cancelled, wireVars, clientVars,
                   inputs, callerVars, nativeVars>>

\* the owner of the context cancels it
Cancel ==
    /\ StartUsesBridge
    /\ ~cancelled
    /\ cancelled' = TRUE
    /\ NoOutput
    /\ UNCHANGED <<cfgVars, adapterVars, wireVars, clientVars, inputs, callerVars,
                   loopVars, busLog, nativeVars>>

\* ------------------------------------------------------------------------
\* Native mode
\* ------------------------------------------------------------------------
StartNativeOutcomes ==
    {"mkdir_err", "store_err", "device_err", "connect_err", "connect_ok"}

\* startNative up to the connect; with a stored session it runs to the end
startNativeOpen(c, outcome) ==
    /\ CanCall(c)
    /\ Enter
    /\ CASE outcome = "mkdir_err" ->
              /\ Return(c, "startNative", "ErrStoreDir")
              /\ UNCHANGED <<container, client, clientConn, running>>
         [] outcome = "store_err" ->
              /\ Return(c, "startNative", "ErrStoreOpen")
              /\ UNCHANGED <<container, client, clientConn, running>>
         [] outcome = "device_err" ->
              /\ container' = TRUE
              /\ Return(c, "startNative", "ErrDevice")
              /\ UNCHANGED <<client, clientConn, running>>
         [] outcome = "connect_err" ->
              /\ container' = TRUE
              /\ client' = TRUE
              /\ clientConn' = FALSE
              /\ Return(c, "startNative", "ErrConnect")
              /\ UNCHANGED running
         [] OTHER ->
              /\ container' = TRUE
              /\ client' = TRUE
              /\ clientConn' = TRUE
              /\ IF hasSession
                   THEN /\ running' = TRUE
                        /\ Return(c, "startNative", "nil")
                   ELSE /\ cpc' = [cpc EXCEPT ![c] = "start_qr"]
                        /\ UNCHANGED running
                        /\ NoOutput
    /\ UNCHANGED <<cfgVars, conn, connected, mu, cancelled, wireVars,
                   hasSession, cconn, cmsg, loopVars, busLog,
                   nativeVars>>

QREvents == {"login", "timeout", "closed"}

\* faulty variant: the running flag is set although the QR code timed out
startNativeQRTimeoutRuns(c, evt) ==
    /\ cpc[c] = "start_qr"
    /\ CASE evt = "login" ->
              /\ ~hasSession
              /\ hasSession' = TRUE
              /\ UNCHANGED <<running, cpc>>
              /\ NoOutput
         [] evt = "timeout" ->
              /\ ~hasSession
              /\ running' = TRUE
              /\ Return(c, "startNative", "ErrQRTimeout")
              /\ UNCHANGED hasSession
         [] OTHER ->
              /\ running' = TRUE
              /\ Return(c, "startNative", "nil")
              /\ UNCHANGED hasSession
    /\ UNCHANGED <<cfgVars, client, container, conn, connected, mu,
                   cancelled, wireVars, clientConn, inputs, cconn, cmsg,
                   loopVars, busLog, nativeVars>>

\* startNative: the range over qrChan ("code" only renders the QR code)
startNativeQR(c, evt) ==
    /\ cpc[c] = "start_qr"
    /\ CASE evt = "login" ->
              /\ ~hasSession
              /\ hasSession' = TRUE
              /\ UNCHANGED <<running, cpc>>
              /\ NoOutput
         [] evt = "timeout" ->
              /\ ~hasSession
              /\ Return(c, "startNative", "ErrQRTimeout")
              /\ UNCHANGED <<hasSession, running>>
         [] OTHER ->
              /\ running' = TRUE
              /\ Return(c, "startNative", "nil")
              /\ UNCHANGED hasSession
    /\ UNCHANGED <<cfgVars, client, container, conn, connected, mu,
                   cancelled, wireVars, clientConn, inputs, cconn, cmsg, loopVars, busLog, nativeVars>>

stopNative(c) ==
    /\ CanCall(c)
    /\ Enter
    /\ clientConn' = IF client THEN FALSE ELSE clientConn
    /\ running' = FALSE
    /\ Return(c, "stopNative", "nil")
    /\ UNCHANGED <<cfgVars, client, container, conn, connected, mu,
                   cancelled, wireVars, hasSession, cconn, cmsg,
                   loopVars, busLog, nativeVars>>

sendNative(c, msg, sendOk) ==
    /\ CanCall(c)
    /\ Enter
    /\ IF ~client \/ ~clientConn
         THEN Return(c, "sendNative", "ErrNotConnected")
         ELSE IF ParseJIDErr(msg.ChatID)
           THEN Return(c, "sendNative", "ErrInvalidJID")
           ELSE /\ cpc' = [cpc EXCEPT ![c] = "idle"]
                /\ out' = [NoOut EXCEPT
                             !.sent = [to |-> msg.ChatID,
                                       content |-> msg.Content,
                                       ok |-> sendOk],
                             !.ret = Ret("sendNative",
                                         IF sendOk THEN "nil" ELSE "ErrSend")]
    /\ UNCHANGED <<cfgVars, adapterVars, cancelled, wireVars, clientConn,
                   hasSession, cconn, cmsg, loopVars, busLog, nativeVars>>

present(p, kind) ==
    CASE kind = "image" -> p.Image.present
      [] kind = "video" -> p.Video.present
      [] kind = "doc" -> p.Document.present
      [] OTHER -> p.Audio.present

\* outcomes of the downloads and of the transcription an event can meet
DownloadChoices(p) ==
    LET here == {kind \in AttKinds : present(p, kind)}
    IN {[kind \in AttKinds |-> IF kind \in here THEN d[kind] ELSE "ok"] :
           d \in [here -> DownloadOutcomes]}
VoiceChoices(p) ==
    IF p.Audio.present THEN VoiceInputs
    ELSE {[available |-> FALSE, err |-> FALSE, text |-> ""]}

CanDispatch == client /\ npc = "idle" /\ inputs < MaxInputs

\* handleEvent, case *events.Message: handleMessageEvent up to HandleMessage
handleEventMessage(p, dl, voice) ==
    /\ CanDispatch
    /\ inputs' = inputs + 1
    /\ nkind' = "Message"
    /\ LET r == handleMessageEvent(p, fs, client, transcriber, dl, voice)
           e == [on |-> TRUE, p |-> p, dl |-> dl, voice |-> voice]
       IN IF r.call
            THEN /\ busLog' = Append(busLog, [seq |-> inputs + 1, h |-> NoConn])
                 /\ out' = [NoOut EXCEPT !.call = HandleMessage("native", r),
                                          !.evt = e,
                                          !.downloads = r.downloads]
                 /\ fs' = r.files
                 /\ nlocal' = r.localFiles
                 /\ npc' = "inbus"
                 /\ busOK' \in BOOLEAN
            ELSE /\ fs' = removeLocalFiles(r.files, r.localFiles)
                 /\ out' = [NoOut EXCEPT !.evt = e,
                                          !.downloads = r.downloads]
                 /\ UNCHANGED <<busLog, nlocal, npc, busOK>>
    /\ UNCHANGED <<cfgVars, adapterVars, cancelled, wireVars, clientVars,
                   callerVars, loopVars>>

\* handleMessageEvent: HandleMessage returns and the deferred cleanup runs
handleMessageReturn ==
    /\ npc = "inbus"
    /\ fs' = removeLocalFiles(fs, nlocal)
    /\ nlocal' = <<>>
    /\ npc' = "idle"
    /\ busOK' = FALSE
    /\ NoOutput
    /\ UNCHANGED <<cfgVars, adapterVars, cancelled, wireVars, clientVars,
                   inputs, callerVars, loopVars, busLog, nkind>>

\* faulty variant: a Connected event marks the channel running again
handleEventLinkSetsRunning(kind) ==
    /\ CanDispatch
    /\ kind \in {"Connected", "Disconnected"}
    /\ inputs' = inputs + 1
    /\ nkind' = kind
    /\ clientConn' = (kind = "Connected")
    /\ running' = IF kind = "Connected" THEN TRUE ELSE running
    /\ NoOutput
    /\ UNCHANGED <<cfgVars, client, container, conn, connected, mu,
                   cancelled, wireVars, hasSession,
                   callerVars, loopVars, busLog, npc, nlocal,
                   busOK, fs>>

\* handleEvent, cases *events.Connected and *events.Disconnected
handleEventLink(kind) ==
    /\ CanDispatch
    /\ kind \in {"Connected", "Disconnected"}
    /\ inputs' = inputs + 1
    /\ nkind' = kind
    /\ clientConn' = (kind = "Connected")
    /\ NoOutput
    /\ UNCHANGED <<cfgVars, adapterVars, cancelled, wireVars, hasSession,
                   callerVars, loopVars, busLog, npc, nlocal,
                   busOK, fs>>

\* handleEvent, case *events.LoggedOut
handleEventLoggedOut ==
    /\ CanDispatch
    /\ inputs' = inputs + 1
    /\ nkind' = "LoggedOut"
    /\ running' = FALSE
    /\ NoOutput
    /\ UNCHANGED <<cfgVars, client, container, conn, connected, mu,
                   cancelled, wireVars, clientVars, callerVars, loopVars,
                   busLog, npc, nlocal, busOK, fs>>

\* faulty variant: a history sync is handled like a new message
handleEventHistorySyncForwards(p) ==
    /\ CanDispatch
    /\ p \in NativePayloads
    /\ inputs' = inputs + 1
    /\ nkind' = "HistorySync"
    /\ LET dl == [kind \in AttKinds |-> "fetch_err"]
           voice == [available |-> FALSE, err |-> FALSE, text |-> ""]
           r == handleMessageEvent(p, fs, client, transcriber, dl, voice)
       IN IF r.call
            THEN /\ busLog' = Append(busLog, [seq |-> inputs + 1, h |-> NoConn])
                 /\ out' = [NoOut EXCEPT !.call = HandleMessage("native", r)]
            ELSE /\ UNCHANGED busLog
                 /\ NoOutput
    /\ UNCHANGED <<cfgVars, adapterVars, cancelled, wireVars, clientVars,
                   callerVars, loopVars, npc, nlocal, busOK, fs>>

\* handleEvent, case *events.HistorySync, whatever payload it wraps
handleEventHistorySync(p) ==
    /\ CanDispatch
    /\ p \in NativePayloads
    /\ inputs' = inputs + 1
    /\ nkind' = "HistorySync"
    /\ NoOutput
    /\ UNCHANGED <<cfgVars, adapterVars, cancelled, wireVars, clientVars,
                   callerVars, loopVars, busLog, npc, nlocal, busOK, fs>>

\* ------------------------------------------------------------------------
\* Start / Stop / Send dispatch and the specification
\* ------------------------------------------------------------------------
Start(c) ==
    IF StartUsesBridge
      THEN startBridgeDial(c)
      ELSE \E outcome \in StartNativeOutcomes : startNativeOpen(c, outcome)

Stop(c) ==
    IF StopUsesBridge THEN stopBridgeLock(c) ELSE stopNative(c)

Send(c) ==
    \E msg \in OutboundMessages :
        IF SendUsesBridge
          THEN sendBridgeLock(c, msg)
          ELSE \E sendOk \in BOOLEAN : sendNative(c, msg, sendOk)

Next ==
    \/ \E c \in Callers : Start(c)
    \/ \E c \in Callers : Stop(c)
    \/ \E c \in Callers : Send(c)
    \/ \E c \in Callers : startBridgeSet(c)
    \/ \E c \in Callers : startBridgeRun(c)
    \/ \E c \in Callers : stopBridgeClose(c)
    \/ \E c \in Callers : stopBridgeFinish(c)
    \/ \E c \in Callers : sendBridgeWrite(c)
    \/ \E c \in Callers, evt \in QREvents : startNativeQR(c, evt)
    \/ \E l \in Loops : listenBridgeSelect(l)
    \/ \E l \in Loops : listenBridgeSleep(l)
    \/ \E l \in Loops : listenBridgeReadErr(l)
    \/ \E l \in Loops, frame \in BridgeFrames : listenBridgeRead(l, frame)
    \/ \E l \in Loops : listenBridgeHandle(l)
    \/ Cancel
    \/ \E p \in NativePayloads :
         \E dl \in DownloadChoices(p), voice \in VoiceChoices(p) :
            handleEventMessage(p, dl, voice)
    \/ handleMessageReturn
    \/ \E kind \in {"Connected", "Disconnected"} : handleEventLink(kind)
    \/ handleEventLoggedOut
    \/ \E p \in NativePayloads : handleEventHistorySync(p)

Spec == Init /\ [][Next]_vars

\* Native mode alone: config.BridgeURL is empty, so Start, Stop and Send take
\* their Native branch and no Bridge step is ever enabled
InitNative == Init /\ bridgeURL = ""

NextNative ==
    \/ \E c \in Callers : Start(c)
    \/ \E c \in Callers : Stop(c)
    \/ \E c \in Callers : Send(c)
    \/ \E c \in Callers, evt \in QREvents : startNativeQR(c, evt)
    \/ \E p \in NativePayloads :
         \E dl \in DownloadChoices(p), voice \in VoiceChoices(p) :
            handleEventMessage(p, dl, voice)
    \/ handleMessageReturn
    \/ \E kind \in {"Connected", "Disconnected"} : handleEventLink(kind)
    \/ handleEventLoggedOut
    \/ \E p \in NativePayloads : handleEventHistorySync(p)

SpecNative == InitNative /\ [][NextNative]_vars

\* the read loop, the event callback and every call in progress keep running
Fairness ==
    /\ \A l \in Loops : WF_vars(listenBridgeSelect(l))
    /\ \A l \in Loops : WF_vars(listenBridgeSleep(l))
    /\ \A l \in Loops : WF_vars(listenBridgeHandle(l))
    /\ \A c \in Callers : WF_vars(startBridgeSet(c))
    /\ \A c \in Callers : WF_vars(startBridgeRun(c))
    /\ \A c \in Callers : WF_vars(stopBridgeClose(c))
    /\ \A c \in Callers : WF_vars(stopBridgeFinish(c))
    /\ \A c \in Callers : WF_vars(sendBridgeWrite(c))
    /\ WF_vars(handleMessageReturn)

SpecFair == Spec /\ Fairness

\* Bridge mode alone: config.BridgeURL is set, so Start, Stop and Send take
\* their Bridge branch and no Native step is ever enabled
InitBridge == Init /\ bridgeURL # ""

NextBridge ==
    \/ \E c \in Callers : Start(c)
    \/ \E c \in Callers : Stop(c)
    \/ \E c \in Callers : Send(c)
    \/ \E c \in Callers : startBridgeSet(c)
    \/ \E c \in Callers : startBridgeRun(c)
    \/ \E c \in Callers : stopBridgeClose(c)
    \/ \E c \in Callers : stopBridgeFinish(c)
    \/ \E c \in Callers : sendBridgeWrite(c)
    \/ \E l \in Loops : listenBridgeSelect(l)
    \/ \E l \in Loops : listenBridgeSleep(l)
    \/ \E l \in Loops : listenBridgeReadErr(l)
    \/ \E l \in Loops, frame \in BridgeFrames : listenBridgeRead(l, frame)
    \/ \E l \in Loops : listenBridgeHandle(l)
    \/ Cancel

SpecBridge == InitBridge /\ [][NextBridge]_vars

\* every ReadMessage in flight returns (here: with an error, at the latest
\* when the peer or Stop closes the socket)
ReadReturns ==
    \A l \in Loops :
        WF_vars(\/ listenBridgeReadErr(l)
                \/ \E frame \in BridgeFrames : listenBridgeRead(l, frame))

\* the read loops and the calls in progress keep running
FairnessBridge ==
    /\ \A l \in Loops : WF_vars(listenBridgeSelect(l))
    /\ \A l \in Loops : WF_vars(listenBridgeSleep(l))
    /\ \A l \in Loops : WF_vars(listenBridgeHandle(l))
    /\ \A c \in Callers : WF_vars(startBridgeSet(c))
    /\ \A c \in Callers : WF_vars(startBridgeRun(c))
    /\ \A c \in Callers : WF_vars(stopBridgeClose(c))
    /\ \A c \in Callers : WF_vars(stopBridgeFinish(c))
    /\ \A c \in Callers : WF_vars(sendBridgeWrite(c))

SpecBridgeFair == SpecBridge /\ FairnessBridge /\ ReadReturns

\* ------------------------------------------------------------------------
\* Properties
\* ------------------------------------------------------------------------
BridgePcs == {"start_set", "start_run", "stop_close", "stop_fin", "send_write"}
NativePcs == {"start_qr"}
BridgeOps == {"startBridge", "stopBridge", "sendBridge"}
NativeOps == {"startNative", "stopNative", "sendNative"}

BridgeTouched ==
    \/ \E c \in Callers : cpc[c] \in BridgePcs
    \/ out.ret.op \in BridgeOps
    \/ out.write # NoWrite
    \/ \E l \in Loops : lpc[l] # "none"
    \/ nDial > 0

NativeTouched ==
    \/ \E c \in Callers : cpc[c] \in NativePcs
    \/ out.ret.op \in NativeOps
    \/ out.sent # NoSent
    \/ client
    \/ container

\* C1: every Start, Stop and Send is carried out by the Bridge transport when
\* the configured bridge endpoint is non-empty and by the Native transport when
\* it is empty; no run touches both transports.
C1_ModeSelection ==
    /\ bridgeURL # "" => ~NativeTouched
    /\ bridgeURL = "" => ~BridgeTouched
    /\ out.ret.op # "none" =>
          (out.ret.op \in BridgeOps <=> bridgeURL # "")

C1_Witness ==
    /\ bridgeURL # ""
    /\ out.ret = Ret("sendBridge", "nil")
    /\ inputs = 2

\* C2: every HandleMessage call carries a non-empty content or a non-empty
\* mediaPaths, in both modes.
C2_BusCallNonEmpty ==
    out.call.via # "none" =>
        (out.call.content # "" \/ Len(out.call.mediaPaths) > 0)

\* C3: payloads delivered on one connection are handed to the bus in the
\* order they were delivered.
C3_DeliveryOrder ==
    \A i, j \in 1..Len(busLog) :
        (i < j /\ busLog[i].h = busLog[j].h) =>
            busLog[i].seq < busLog[j].seq

\* C5: once the read loop has seen a read error, and before it retries, the
\* adapter no longer reports Connected and holds no handle.
C5_ReadErrorDisconnects ==
    \A l \in Loops :
        lpc[l] = "sleep2" => (~connected /\ conn = NoConn)

\* the steps a read loop can take
C4_LoopStep ==
    \A l \in Loops :
        /\ (lpc[l] = "read" /\ lpc'[l] # "read") =>
              lpc'[l] \in {"sleep2", "handle"}
        /\ (lpc[l] = "sleep2" /\ lpc'[l] # "sleep2") => lpc'[l] = "select"
        /\ (lpc[l] = "select" /\ lpc'[l] # "select") =>
              lpc'[l] = IF cancelled THEN "done"
                        ELSE IF conn = NoConn THEN "sleep1" ELSE "read"
        /\ (lpc[l] # "done" /\ lpc'[l] = "done") =>
              (lpc[l] = "select" /\ cancelled)
        /\ (lpc[l] = "handle" /\ lpc'[l] # "handle"
            /\ listenBridgeFrame(lmsg[l].frame).call) =>
              (out'.call.via = "bridge" /\ out'.retry = lmsg[l].retry)

\* C4: the bridge read loop does not end on a read error: a failed read leads
\* to the backoff, the backoff always ends and leads back to the select, which
\* reads the held handle again; a frame read after a failure is handled and
\* forwarded like any other; the loop returns only from the select, once the
\* context is cancelled.
C4_LoopRetries ==
    /\ [](\A l \in Loops : lpc[l] = "done" => cancelled)
    /\ [](\A l \in Loops :
             lpc[l] = "sleep2" => ENABLED listenBridgeSleep(l))
    /\ [](\A l \in Loops :
             (lpc[l] = "select" /\ mu = Free) => ENABLED listenBridgeSelect(l))
    /\ [][C4_LoopStep]_vars

C4_Witness ==
    /\ out.call.via = "bridge"
    /\ out.retry
    /\ ~cancelled

\* the steps of a sendBridge call
C6_SendStep ==
    /\ (cpc' = cpc /\ out'.ret.op = "sendBridge") =>
          /\ conn = NoConn
          /\ out'.ret.err = "ErrNotEstablished"
          /\ out'.write = NoWrite
          /\ UNCHANGED <<adapterVars, wireVars, loopVars, busLog>>
    /\ \A c \in Callers :
          /\ (cpc[c] = "idle" /\ cpc'[c] = "send_write") =>
                (conn # NoConn /\ out'.write = NoWrite)
          /\ (cpc[c] = "send_write" /\ cpc'[c] # "send_write") =>
                /\ cpc'[c] = "idle"
                /\ out'.ret.op = "sendBridge"
                /\ out'.write.h = conn
                /\ out'.write.data =
                      Obj([type |-> S("message"), to |-> S(cmsg[c].ChatID),
                           content |-> S(cmsg[c].Content)])
                /\ (out'.ret.err = "nil" <=> out'.write.ok)
                /\ UNCHANGED <<running, conn, connected, wireVars>>
    /\ out'.write # NoWrite =>
          \E c \in Callers : cpc[c] = "send_write" /\ cpc'[c] = "idle"

\* C6: a bridge Send made while no handle is held returns the connectivity
\* error, writes nothing and changes no adapter state; a Send made while a
\* handle is held writes exactly one frame {type: "message", to, content} on
\* it and returns an error exactly when the write fails.
C6_BridgeSend ==
    /\ [](\A c \in Callers :
             cpc[c] = "send_write" => (conn # NoConn /\ mu = c))
    /\ [][C6_SendStep]_vars

C6_Witness ==
    /\ out.ret = Ret("sendBridge", "ErrSend")
    /\ out.write.h = 1
    /\ ~out.write.ok
    /\ out.write.data = Obj([type |-> S("message"), to |-> S("A"),
                             content |-> S("hi")])

\* the steps of a startBridge call
C7_StartStep ==
    /\ (cpc' = cpc /\ out'.ret.op = "startBridge") =>
          /\ out'.ret.err = "ErrConnect"
          /\ UNCHANGED <<adapterVars, wireVars, loopVars>>
    /\ \A c \in Callers :
          /\ (cpc[c] = "idle" /\ cpc'[c] = "start_set") =>
                /\ nDial' = nDial + 1
                /\ cconn'[c] = nDial'
                /\ UNCHANGED <<adapterVars, loopVars>>
          /\ (cpc[c] = "start_set" /\ cpc'[c] # "start_set") =>
                /\ cpc'[c] = "start_run"
                /\ conn' = cconn[c]
                /\ conn' # NoConn
                /\ connected'
          /\ (cpc[c] = "start_run" /\ cpc'[c] # "start_run") =>
                /\ cpc'[c] = "idle"
                /\ running'
                /\ out'.ret = Ret("startBridge", "nil")
                /\ \E l \in Loops :
                      /\ lpc[l] = "none"
                      /\ lpc' = [lpc EXCEPT ![l] = "select"]
    /\ (\E l \in Loops : lpc[l] = "none" /\ lpc'[l] # "none") =>
          \E c \in Callers : cpc[c] = "start_run" /\ cpc'[c] = "idle"

\* C7: a bridge Start whose dial fails returns the error and leaves handle,
\* connected flag, running flag and read loops as they were (unset before any
\* successful Start); a Start whose dial succeeds stores the new handle, sets
\* connected, sets running, launches one read loop and returns nil.
C7_BridgeStart ==
    /\ []((bridgeURL # "" /\ nDial = 0) =>
             /\ conn = NoConn
             /\ ~connected
             /\ ~running
             /\ \A l \in Loops : lpc[l] = "none")
    /\ [][C7_StartStep]_vars

C7_Witness ==
    /\ out.ret = Ret("startBridge", "nil")
    /\ nDial = 1
    /\ conn = 1
    /\ connected
    /\ running
    /\ lpc[1] = "select"

\* the steps of a stopBridge call
C8_StopStep ==
    /\ \A c \in Callers :
          /\ (cpc[c] = "idle" /\ cpc'[c] = "stop_fin") =>
                (conn = NoConn /\ UNCHANGED <<conn, connected, running, closed>>)
          /\ (cpc[c] = "idle" /\ cpc'[c] = "stop_close") =>
                (conn # NoConn /\ UNCHANGED <<conn, connected, running, closed>>)
          /\ (cpc[c] = "stop_close" /\ cpc'[c] # "stop_close") =>
                /\ cpc'[c] = "stop_fin"
                /\ closed' = [closed EXCEPT ![conn] = 1]
                /\ conn' = NoConn
          /\ (cpc[c] = "stop_fin" /\ cpc'[c] # "stop_fin") =>
                /\ cpc'[c] = "idle"
                /\ out'.ret = Ret("stopBridge", "nil")
                /\ conn' = NoConn
                /\ ~connected'
                /\ ~running'
                /\ closed' = closed
                /\ (~connected /\ ~running) =>
                      UNCHANGED <<conn, connected, running>>
    /\ closed' # closed =>
          \E c \in Callers : cpc[c] = "stop_close" /\ cpc'[c] = "stop_fin"

\* C8: a bridge Stop ends with the handle unset, connected false and running
\* false and returns nil; a Stop made when no handle is held closes nothing
\* and leaves that state as it is; no handle is closed twice.
C8_StopIdempotent ==
    /\ [](\A h \in Handles : closed[h] <= 1)
    /\ [](\A c \in Callers : cpc[c] = "stop_fin" => (conn = NoConn /\ mu = c))
    /\ [][C8_StopStep]_vars

C8_Witness ==
    /\ \E c \in Callers : cpc[c] = "stop_fin"
    /\ nDial = 1
    /\ closed[1] = 1
    /\ conn = NoConn
    /\ ~connected
    /\ ~running

\* C9: in Native mode the files downloaded for a message event are exactly the
\* files present while HandleMessage runs, the bus call names them, and no
\* file is left once handleMessageEvent has returned, whether the event was
\* forwarded, dropped, or its delivery failed.
C9_TransientFiles ==
    /\ npc = "inbus" => fs = {nlocal[i] : i \in 1..Len(nlocal)}
    /\ npc = "idle" => (fs = {} /\ nlocal = <<>>)
    /\ out.call.via = "native" =>
          (npc = "inbus" /\ out.call.mediaPaths = nlocal)

C9_Witness ==
    /\ npc = "inbus"
    /\ Cardinality(fs) = 2
    /\ ~busOK
    /\ out.call.via = "native"

\* the step that handles a frame
C10_FrameStep ==
    /\ \A l \in Loops :
          (lpc[l] = "handle" /\ lpc'[l] # "handle") =>
              LET f == lmsg[l].frame
              IN /\ lpc'[l] = "select"
                 /\ \/ busLog' = busLog /\ out'.call = NoBusCall
                    \/ /\ busLog' = Append(busLog, [seq |-> lmsg[l].seq,
                                                     h |-> lmsg[l].h])
                       /\ out'.call.via = "bridge"
                 /\ (\/ f.raw # "object"
                     \/ ~IsStr(f.obj, "type")
                     \/ f.obj["type"].v # "message") =>
                       (busLog' = busLog /\ out'.call = NoBusCall)
                 /\ f = FrameHi =>
                       /\ Len(busLog') = Len(busLog) + 1
                       /\ out'.call.senderID = "A"
                       /\ out'.call.chatID = "A"
                       /\ out'.call.content = "hi"
    /\ (bridgeURL # "" /\ busLog' # busLog) =>
          \E l \in Loops : lpc[l] = "handle" /\ lpc'[l] = "select"

\* C10: handling a frame that is not a JSON object or whose type is not the
\* string "message" makes no bus call and returns the loop to its select;
\* every frame makes at most one bus call; the frame {type: "message",
\* from: "A", content: "hi"} makes exactly one, with senderID "A", chatID "A"
\* and content "hi", also when it follows a frame that made none.
C10_BridgeFrames ==
    /\ [](\A i, j \in 1..Len(busLog) :
             (i # j /\ busLog[i].h # NoConn) => busLog[i].seq # busLog[j].seq)
    /\ [][C10_FrameStep]_vars

C10_Witness ==
    /\ nDial = 1
    /\ delivered = 2
    /\ busLog = <<[seq |-> 2, h |-> 1]>>
    /\ out.call.via = "bridge"
    /\ out.call.senderID = "A"
    /\ out.call.chatID = "A"
    /\ out.call.content = "hi"

\* a Native event of the given kind is dispatched to handleEvent
NativeEventStep(kind) ==
    /\ bridgeURL = ""
    /\ inputs' = inputs + 1
    /\ cpc' = cpc
    /\ out'.ret = NoRet
    /\ nkind' = kind

\* what a history sync leaves alone, and where Native bus calls come from
C11_HistoryStep ==
    /\ NativeEventStep("HistorySync") =>
          /\ busLog' = busLog
          /\ out'.call = NoBusCall
          /\ UNCHANGED <<adapterVars, clientVars, npc, nlocal, fs, transcriber>>
    /\ (bridgeURL = "" /\ busLog' # busLog) =>
          /\ NativeEventStep("Message")
          /\ busLog' = Append(busLog, [seq |-> inputs', h |-> NoConn])

\* C11: a HistorySync event makes no bus call and changes no adapter state,
\* whatever payload it wraps; every Native bus call is made by the dispatch of
\* one events.Message, one call at most per event, so the bus calls never
\* outnumber the message events.
C11_HistoryIgnored ==
    /\ [](bridgeURL = "" =>
             /\ Len(busLog) <= inputs
             /\ \A i, j \in 1..Len(busLog) :
                   i < j => busLog[i].seq < busLog[j].seq)
    /\ [][C11_HistoryStep]_vars

C11_Witness ==
    /\ nkind = "HistorySync"
    /\ client
    /\ inputs = 3
    /\ Len(busLog) = 1
    /\ npc = "idle"
    /\ out = NoOut

\* C12: an events.Message sent by the adapter's own account, or addressed to
\* the broadcast server, makes no bus call and no downloadMedia call and
\* leaves no file, whatever text and attachments it carries.
C12_SelfBroadcastDropped ==
    (out.evt.on /\ (out.evt.p.IsFromMe \/ out.evt.p.Chat.Server = "broadcast"))
        => /\ out.call = NoBusCall
           /\ out.downloads = 0
           /\ npc = "idle"
           /\ fs = {}

C12_Witness ==
    /\ out.evt.on
    /\ out.evt.p = PSelf
    /\ out.call = NoBusCall
    /\ busLog = <<>>

\* the content handleMessageEvent has built when it reaches the audio block
ContentBeforeAudio(e) ==
    handleMessageEvent([e.p EXCEPT !.Audio = NoAtt, !.Sticker = FALSE], {},
                       TRUE, FALSE, e.dl, e.voice).content

\* the annotation the claim expects for the dispatched voice message
ExpectedAnnotation(e) ==
    IF ~transcriber \/ ~e.voice.available THEN "[voice]"
    ELSE IF e.voice.err THEN "[voice (transcription failed)]"
    ELSE "[voice transcription: " \o e.voice.text \o "]"

\* C13: an events.Message that is not skipped and whose audio attachment was
\* downloaded is handed to the bus, once, with the audio file among its media
\* and with the annotation appended to its content: "[voice]" without a
\* transcriber or with an unavailable one, "[voice (transcription failed)]"
\* when Transcribe returns an error, "[voice transcription: <text>]" otherwise.
C13_VoiceAnnotation ==
    (/\ out.evt.on
     /\ ~out.evt.p.IsFromMe
     /\ out.evt.p.Chat.Server # "broadcast"
     /\ out.evt.p.Audio.present
     /\ out.evt.dl["audio"] = "ok")
        => LET withVoice ==
                   appendWhatsAppContent(ContentBeforeAudio(out.evt),
                                         ExpectedAnnotation(out.evt))
           IN /\ out.call.via = "native"
              /\ Len(busLog) >= 1
              /\ busLog[Len(busLog)].seq = inputs
              /\ \A i \in 1..(Len(busLog) - 1) : busLog[i].seq < inputs
              /\ Len(out.call.mediaPaths) >= 1
              /\ out.call.content =
                    IF out.evt.p.Sticker
                      THEN appendWhatsAppContent(withVoice, "[sticker]")
                      ELSE withVoice

C13_Witness ==
    /\ out.evt.on
    /\ out.evt.p = PAudio
    /\ out.evt.dl["audio"] = "ok"
    /\ transcriber
    /\ out.evt.voice.available
    /\ out.evt.voice.err
    /\ out.call.content = "[voice (transcription failed)]"

\* what the LoggedOut, Connected and Disconnected events do to the adapter
C14_EventStep ==
    /\ NativeEventStep("LoggedOut") =>
          /\ ~running'
          /\ UNCHANGED <<client, container, conn, connected, mu, busLog>>
    /\ (NativeEventStep("Connected") \/ NativeEventStep("Disconnected")) =>
          /\ UNCHANGED <<adapterVars, transcriber, hasSession, busLog, npc,
                         nlocal, fs>>
          /\ out' = NoOut
    /\ (bridgeURL = "" /\ ~running /\ running') =>
          out'.ret = Ret("startNative", "nil")

\* C14: a LoggedOut event leaves the running flag false; in Native mode the
\* flag goes from false to true only in the step in which Start returns nil;
\* Connected and Disconnected events change no field of the adapter and make
\* no bus call.
C14_LoggedOut == [][C14_EventStep]_vars

C14_Witness ==
    /\ nkind = "LoggedOut"
    /\ ~running
    /\ client
    /\ clientConn
    /\ hasSession
    /\ inputs = 2
    /\ \A c \in Callers : cpc[c] = "idle"

\* how a startNative call ends
C15_StartStep ==
    /\ (out'.ret.op = "startNative" /\ out'.ret.err # "nil") =>
          running' = running
    /\ out'.ret = Ret("startNative", "nil") => running'
    /\ out'.ret = Ret("startNative", "ErrQRTimeout") =>
          /\ ~hasSession
          /\ \E c \in Callers : cpc[c] = "start_qr" /\ cpc'[c] = "idle"
    /\ (out'.ret = Ret("startNative", "ErrConnect") /\ hasSession) =>
          (cpc' = cpc /\ client' /\ ~clientConn')
    /\ \A c \in Callers :
          (cpc[c] = "idle" /\ cpc'[c] = "start_qr") =>
              (~hasSession /\ running' = running)

\* C15: startNative sets the running flag only in the step in which it
\* returns nil; a call that returns an error leaves the flag as it was (unset
\* before any successful Start): so does the QR timeout met without a stored
\* session, and so does a failed Connect with a stored session.
C15_NativeStart ==
    /\ []((bridgeURL = "" /\ ~container) => ~running)
    /\ [][C15_StartStep]_vars

C15_Witness ==
    /\ out.ret = Ret("startNative", "ErrQRTimeout")
    /\ ~running
    /\ ~hasSession
    /\ client
    /\ inputs = 1

\* C16: every bus call, Native or Bridge, carries metadata with the keys
\* message_id and sender_jid; for a Native event is_group is present exactly
\* when the event is marked as a group message and user_name exactly when its
\* push name is non-empty.
C16_Metadata ==
    out.call.via # "none" =>
        /\ {"message_id", "sender_jid"} \subseteq DOMAIN out.call.metadata
        /\ out.evt.on =>
              /\ "is_group" \in DOMAIN out.call.metadata <=> out.evt.p.IsGroup
              /\ "user_name" \in DOMAIN out.call.metadata
                    <=> out.evt.p.PushName # ""

\* the steps of a read loop around the cancellation test
C17_CancelStep ==
    /\ \A l \in Loops :
          /\ lpc[l] = "done" => lpc'[l] = "done"
          /\ (lpc[l] = "select" /\ cancelled /\ lpc'[l] # "select") =>
                lpc'[l] = "done"
          /\ (lpc[l] # "read" /\ lpc'[l] = "read") =>
                (lpc[l] = "select" /\ ~cancelled)
    /\ (bridgeURL # "" /\ busLog' # busLog) =>
          \E l \in Loops : lpc[l] = "handle" /\ lpc'[l] = "select"

\* C17: once the context is cancelled every read loop eventually returns,
\* provided the read it has in flight returns; a loop that finds the context
\* cancelled at its select starts no read and returns; a loop that has
\* returned takes no further step, so it makes no bus call.
C17_Cancellation ==
    /\ [][C17_CancelStep]_vars
    /\ cancelled ~> (\A l \in Loops : lpc[l] \in {"none", "done"})

C17_Witness ==
    /\ cancelled
    /\ lpc[1] = "done"
    /\ Len(busLog) = 1
    /\ out = NoOut

\* the attachments of a payload that carry a caption field
CaptionedAttachments(p) ==
    {a \in {p.Image, p.Video, p.Document} : a.present}

\* the payload has one attachment and nothing else besides text, and that
\* attachment has a caption
OneCaptionedAttachment(p) ==
    /\ ~p.Audio.present
    /\ ~p.Sticker
    /\ Cardinality({k \in {"Image", "Video", "Document"} : p[k].present}) = 1
    /\ \A a \in CaptionedAttachments(p) : a.caption # ""

\* C18: an events.Message that is not skipped and carries exactly one
\* attachment, with a non-empty caption, is handed to the bus with content
\* text + "\n" + caption when the message has text (the conversation text,
\* else the extended text) and with the caption alone when it has none,
\* whatever the outcome of the download.
C18_CaptionAppended ==
    (/\ out.evt.on
     /\ ~out.evt.p.IsFromMe
     /\ out.evt.p.Chat.Server # "broadcast"
     /\ OneCaptionedAttachment(out.evt.p))
        => LET p == out.evt.p
               text == IF p.Conversation # "" THEN p.Conversation
                       ELSE p.ExtendedText
               caption == (CHOOSE a \in CaptionedAttachments(p) : TRUE).caption
           IN /\ out.call.via = "native"
              /\ out.call.content =
                    (IF text # "" THEN text \o "\n" \o caption ELSE caption)

C18_Witness ==
    /\ out.evt.on
    /\ out.evt.p = PImageOnly
    /\ out.evt.dl["image"] = "fetch_err"
    /\ out.call.via = "native"
    /\ out.call.content = "cap"
    /\ out.call.mediaPaths = <<>>

\* the callers that are about to perform I/O on the connection
InConnIO(c) == cpc[c] \in {"send_write", "stop_close"}

\* C19: in Bridge mode no caller holds c.mu at the point where it calls
\* WriteMessage (Send) or Close (Stop) on the connection. (A read loop
\* releases c.mu before ReadMessage: mu is only ever held by a caller.)
C19_NoLockAcrossIO ==
    bridgeURL # "" =>
        /\ mu \in {Free} \cup Callers
        /\ \A c \in Callers : InConnIO(c) => mu # c

\* the read loops that have been launched and have not returned
RunningLoops == {l \in Loops : lpc[l] \notin {"none", "done"}}

\* C20: in Bridge mode at most one read loop is running, and so no two
\* loops work on the same connection handle.
C20_SingleLoop ==
    bridgeURL # "" =>
        /\ Cardinality(RunningLoops) <= 1
        /\ \A l, m \in RunningLoops :
              (lconn[l] # NoConn /\ lconn[l] = lconn[m]) => l = m

\* C21: in Bridge mode an inbound message is handed to the bus only while the
\* adapter is running, i.e. not between the return of a Stop (which clears
\* the running flag as its last step) and the success of the next Start
\* (which sets it as its last step).
C21_NoCallAfterStop ==
    (bridgeURL # "" /\ out.call.via # "none") => running

\* a caller is between the locking step and the WriteMessage of sendBridge
Writing(c) == cpc[c] = "send_write"

\* the step in which a frame is written to the bridge
C22_WriteStep ==
    out'.write # NoWrite =>
        \E c \in Callers :
            /\ Writing(c)
            /\ cpc'[c] = "idle"
            /\ mu = c
            /\ conn # NoConn
            /\ out'.write.h = conn
            /\ closed[conn] = 0
            /\ \A d \in Callers \ {c} :
                  cpc[d] \notin {"send_write", "stop_close", "stop_fin"}

\* C22: a frame is written only by the caller that holds c.mu, to the handle
\* stored in c.conn at that moment, and that handle has not been closed by
\* Stop; while a caller is about to write, no other caller is writing or
\* closing; the handle stored in c.conn is never one that Stop has closed.
C22_SerializedWrites ==
    /\ [](bridgeURL # "" =>
            /\ \A c \in Callers :
                  Writing(c) => (mu = c /\ conn # NoConn /\ closed[conn] = 0)
            /\ Cardinality({c \in Callers : Writing(c)}) <= 1
            /\ conn # NoConn => closed[conn] = 0)
    /\ [][C22_WriteStep]_vars

C22_Witness ==
    /\ out.write.h = 2
    /\ out.write.ok
    /\ out.ret = Ret("sendBridge", "nil")
    /\ conn = 2
    /\ closed = <<1, 0>>
    /\ mu = Free

====
